---- MODULE Spec2Model ----
(***************************************************************************)
(* Key rotation of an encrypted RBD volume (RotateEncryptionKey) against   *)
(* the LUKS header of the mapped device, the KMS and the rados lock of the *)
(* volume.  Several rotation attempts on ONE volume are modelled; each is a *)
(* call of RotateEncryptionKey.  Time is discrete: one unit stands for     *)
(* half of cryptsetup.ExecutionTimeout.                                    *)
(***************************************************************************)
EXTENDS Integers, FiniteSets, Sequences, TLC

\* ----------------------------------------------------------------- bounds
MaxTime == 3

\* ------------------------------------------------------ program constants
\* cryptsetup.ExecutionTimeout, in model time units
ExecutionTimeout == 2
\* the 30*time.Second added to it for the lease, in model time units
CleanupMargin == 1
lockDuration == ExecutionTimeout + CleanupMargin

rbdImageEncryptionUnknown == ""
rbdImageEncrypted == "encrypted"
rbdImageEncryptionPrepared == "encryptionPrepared"
EncryptionStates ==
    {rbdImageEncryptionUnknown, rbdImageEncryptionPrepared, rbdImageEncrypted}

luksSlot0 == "0"
luksSlot1 == "1"
Slots == {luksSlot0, luksSlot1}

\* ------------------------------------------------------------- the callers
\* The rotation attempts on the volume.  a1 and a2 run in one process and
\* share its rados connection; a3 runs through another connection.
Attempts == {"a1", "a2", "a3"}
ioctx == [a \in Attempts |-> IF a = "a3" THEN "client2" ELSE "client1"]
\* rv.VolID + "-enc-key-rotate": the same for every attempt on the volume
lockCookie == "vol-enc-key-rotate"
Locker(a) == <<ioctx[a], lockCookie>>
NoLocker == <<"", "">>

\* passphrases: the one the volume was formatted with, and the one each
\* attempt draws from the random source (distinct 20-byte values)
NoKey == "none"
InitialKey == "p0"
NewKey(a) == a
Keys == {InitialKey} \cup {NewKey(a) : a \in Attempts}

NoAttempt == "nobody"

VARIABLES
    isBlockEncrypted,  \* rv.blockEncryption != nil
    metadata,          \* image metadata value under encryptionMetaKey
    luks,              \* key slot -> passphrase held in the slot (or NoKey)
    kms,               \* passphrase the KMS (DEK store) returns for the volume
    lockHolder,        \* locker (client, cookie) of the volume's lock
    lockExpiry,        \* time at which the lease of lockHolder ends
    lockOwner,         \* the attempt whose acquisition lockHolder stands for
    now,               \* the clock
    rot,               \* attempt -> the locals of its RotateEncryptionKey call
    parent,            \* the image a clone or restore of the volume is made from
    gateway,           \* which blocklist commands the cluster recognises
    blocklist,         \* the entries of the cluster's blocklist
    sessions,          \* the active client sessions of the cluster
    prior,             \* the blocklist before the first fencing call
    fence,             \* fencer -> the locals of its fencing call
    expand,            \* caller -> the locals of its getIPRange call
    call               \* the last call of an operation on the state tag

vars == <<isBlockEncrypted, metadata, luks, kms, lockHolder, lockExpiry,
          lockOwner, now, rot, parent, gateway, blocklist, sessions, prior,
          fence, expand, call>>

fenceVars == <<gateway, blocklist, sessions, prior, fence, expand>>

volumeVars == <<isBlockEncrypted, metadata>>
lockVars == <<lockHolder, lockExpiry, lockOwner>>

\* The locals of a call: pc is the call it is in; started says that the
\* command of that call was really started (its context was not done when it
\* was called); cancelled that the caller's ctx is done; timedDeadline is the
\* deadline of timedCtx; result and failedAt are the error it returns and the
\* step that produced it; acquired that LockExclusive returned nil; released
\* that the deferred Unlock was issued; retry that the call was made after a
\* rotation that failed.
Fresh ==
    [pc |-> "idle", started |-> FALSE, cancelled |-> FALSE,
     timedDeadline |-> 0, oldPassphrase |-> NoKey, newPassphrase |-> NoKey,
     result |-> "", failedAt |-> "", acquired |-> FALSE, released |-> FALSE,
     retry |-> FALSE]

\* what is left of a call that has returned
Returned(r) ==
    [Fresh EXCEPT !.pc = "done", !.result = r.result,
                  !.acquired = r.acquired, !.released = r.released]

\* the steps bound by timedCtx
TimedSteps == {"addBackup", "installNew", "kmsUpdate", "removeBackup"}
\* the steps between LockExclusive and the return
LockedSteps ==
    {"waitForPath", "fetch", "addBackup", "genKey", "installNew",
     "kmsUpdate", "removeBackup"}

\* -------------------------------------------------------------- contexts
CtxDone(a) == rot[a].cancelled
TimedCtxDone(a) == rot[a].cancelled \/ now >= rot[a].timedDeadline

\* error returned by a call that ended because its context was done
CtxErr(a) == IF rot[a].cancelled THEN "Cancelled" ELSE "DeadlineExceeded"

\* ------------------------------------------------------------------ LUKS
Other(slot) == IF slot = luksSlot0 THEN luksSlot1 ELSE luksSlot0
Opens(l, authKey) ==
    authKey # NoKey /\ \E s \in Slots : l[s] = authKey

\* luks.AddKey: the outcomes of adding newKey to slot, authenticated by
\* authKey.  A free slot is filled; a slot that holds newKey already
\* is left alone; a slot that holds another key is killed (authKey must open
\* the other slot) and then filled, and an interruption between the two leaves
\* it empty.
AddKey(l, authKey, newKey, slot) ==
    LET failed == [err |-> "CommandFailed", luks |-> l]
        done == [err |-> "", luks |-> [l EXCEPT ![slot] = newKey]]
    IN  IF ~Opens(l, authKey) THEN {[err |-> "AuthFailed", luks |-> l]}
        ELSE IF l[slot] = NoKey THEN {done, failed}
        ELSE IF l[slot] = newKey THEN {[err |-> "", luks |-> l], failed}
        ELSE IF l[Other(slot)] = authKey
             THEN {done, failed,
                   [err |-> "CommandFailed", luks |-> [l EXCEPT ![slot] = NoKey]]}
        ELSE {[err |-> "AuthFailed", luks |-> l]}

\* luks.RemoveKey: kills slot, authenticated by a passphrase of the other slot
RemoveKey(l, authKey, slot) ==
    IF authKey # NoKey /\ l[Other(slot)] = authKey
    THEN {[err |-> "", luks |-> [l EXCEPT ![slot] = NoKey]],
          [err |-> "CommandFailed", luks |-> l]}
    ELSE {[err |-> "AuthFailed", luks |-> l]}

\* ------------------------------------------------------------------ lock
LockHeld == lockHolder # NoLocker /\ now < lockExpiry
\* the lock names its holder by client and cookie: a release by that client
\* with that cookie removes it
OwnsLock(a) == lockHolder = Locker(a)

\* end of the lease attempt a acquired: LockExclusive follows the creation of
\* timedCtx at once
lease(a) == rot[a].timedDeadline + CleanupMargin

\* --------------------------------------------------------------- helpers
\* `return err` of attempt a out of step: the deferred Unlock runs when the
\* lock was acquired
Return(a, step, res) ==
    LET r == [rot[a] EXCEPT !.result = res, !.failedAt = step]
    IN  rot' = [rot EXCEPT ![a] =
                  IF r.acquired THEN [r EXCEPT !.pc = "unlock"] ELSE Returned(r)]

\* attempt a calls the next step, with its locals now r; the command is
\* started unless ctxDone
Call(a, r, step, ctxDone) ==
    rot' = [rot EXCEPT ![a] = [r EXCEPT !.pc = step, !.started = ~ctxDone]]

\* --------------------------------------------------- the image cloned from
\* The image (ri) of copyEncryptionConfig and repairEncryptionConfig, whose
\* destination (cp, dest) is the volume: its binding, the passphrase its KMS
\* entry holds and its state tag.
ParentKey == "pp"
NoParent ==
    [binding |-> "none", passphrase |-> NoKey,
     metadata |-> rbdImageEncryptionUnknown]
Parents ==
    [binding : {"none", "block", "file"}, passphrase : {NoKey, ParentKey},
     metadata : EncryptionStates]

\* position of a state tag along Unknown -> Prepared -> Encrypted
Rank(state) ==
    IF state = rbdImageEncrypted THEN 2
    ELSE IF state = rbdImageEncryptionPrepared THEN 1 ELSE 0

\* --------------------------------------------------------------- addresses
\* An address is a vector of IPBytes bytes, each below ByteBase, the first
\* byte the most significant one; a prefix length counts whole bytes.
IPBytes == 2
ByteBase == 2
IPs == [1..IPBytes -> 0..(ByteBase - 1)]

\* net.IP.Mask: the bytes behind the prefix are cleared
Mask(ip, len) == [j \in 1..IPBytes |-> IF j <= len THEN ip[j] ELSE 0]

\* net.ParseCIDR keeps the address as written and the masked network
ParseCIDR(cidr) == [netIP |-> cidr.ip, ipnet |-> [ip |-> Mask(cidr.ip, cidr.len), len |-> cidr.len]]

\* net.IPNet.Contains
Contains(ipnet, ip) == Mask(ip, ipnet.len) = ipnet.ip

isIPInCIDR(ip, cidr) == Contains(ParseCIDR(cidr).ipnet, ip)

\* incIP: increments the last byte and carries while a byte wraps to 0
RECURSIVE incIPFrom(_, _)
incIPFrom(ip, j) ==
    IF j = 0 THEN ip
    ELSE LET b == (ip[j] + 1) % ByteBase
             next == [ip EXCEPT ![j] = b]
         IN  IF b > 0 THEN next ELSE incIPFrom(next, j - 1)
incIP(ip) == incIPFrom(ip, IPBytes)

\* getIPRange: from the masked network on, every address while it is in the
\* block
RECURSIVE getIPRangeFrom(_, _, _)
getIPRangeFrom(ipnet, ip, hosts) ==
    IF ~Contains(ipnet, ip) THEN hosts
    ELSE getIPRangeFrom(ipnet, incIP(ip), Append(hosts, ip))
getIPRange(cidr) ==
    LET parsed == ParseCIDR(cidr)
    IN  getIPRangeFrom(parsed.ipnet, Mask(parsed.netIP, parsed.ipnet.len), <<>>)

\* the address whose bytes are the digits of n
IPOf(n) ==
    [j \in 1..IPBytes |-> (n \div (ByteBase ^ (IPBytes - j))) % ByteBase]

\* the CIDR blocks of the requests: a block written with a host byte set, and
\* the block of one address inside it
CidrA == [ip |-> IPOf(1), len |-> IPBytes - 1]
CidrB == [ip |-> IPOf(1), len |-> IPBytes]
Cidrs == {CidrA, CidrB}
MaxRanges == 2
\* nf.Cidr: GetCIDR refuses the empty list
CidrLists == UNION {[1..n -> Cidrs] : n \in 1..MaxRanges}

\* ------------------------------------------------- blocklist and sessions
\* a blocklist entry: a range entry (cidr), or an address entry ip:0/nonce
RangeEntry(cidr) ==
    [kind |-> "cidr", ip |-> cidr.ip, len |-> cidr.len, nonce |-> ""]
AddrEntry(ip, nonce) ==
    [kind |-> "addr", ip |-> ip, len |-> IPBytes, nonce |-> nonce]
NoEntry == [kind |-> "", ip |-> IPOf(0), len |-> 0, nonce |-> ""]

\* the entry an `osd blocklist [range] add` command names
addCephBlocklistEntry(ip, useRange) ==
    IF useRange THEN RangeEntry(ip) ELSE AddrEntry(ip, "0")
\* the entry an `osd blocklist [range] rm` command names
removeCephBlocklistEntry(ip, nonce, useRange) ==
    IF useRange THEN RangeEntry(ip)
    ELSE IF nonce # "" THEN AddrEntry(ip, nonce) ELSE AddrEntry(ip, "0")

\* active clients ("client.<id> <ip>:0/<nonce>")
Clients ==
    {[id |-> 1, ip |-> IPOf(1), nonce |-> "n1"],
     [id |-> 2, ip |-> IPOf(0), nonce |-> "n2"]}
ClientEntry(c) == AddrEntry(c.ip, c.nonce)

\* descriptors of sessions that cannot be parsed: NoID is an entity whose id
\* is no number, NoIP an inst without an address
NoID == 0
NoIP == <<>>
Malformed ==
    {[id |-> NoID, ip |-> IPOf(2), nonce |-> "n3"],
     [id |-> NoID, ip |-> IPOf(1), nonce |-> "n4"],
     [id |-> 3, ip |-> NoIP, nonce |-> ""]}

\* the cluster denies an address that a range entry contains or that an entry
\* without a client nonce names
Denied(bl, ip) ==
    \E e \in bl :
        \/ e.kind = "cidr" /\ isIPInCIDR(ip, [ip |-> e.ip, len |-> e.len])
        \/ e.kind = "addr" /\ e.ip = ip /\ e.nonce = "0"

RECURSIVE SeqOf(_)
SeqOf(S) ==
    IF S = {} THEN <<>>
    ELSE LET x == CHOOSE y \in S : TRUE IN <<x>> \o SeqOf(S \ {x})

\* the answers of the cluster to a blocklist command: an unrecognised command
\* is answered with "invalid command"
Recognised(useRange) ==
    IF useRange THEN gateway = "range" ELSE gateway # "none"
Answers(useRange) ==
    IF Recognised(useRange) THEN {"ok", "CommandFailed"}
    ELSE {"invalid command", "CommandFailed"}
invalidCommandStr == "invalid command"

\* the answers of the cluster to the removal of the entry e: removing an entry
\* that is not in the blocklist changes nothing, and the cluster may report it
\* as done or as an error
RemoveAnswers(e, useRange) ==
    Answers(useRange) \cup
        (IF Recognised(useRange) /\ e \notin blocklist
         THEN {"NotBlocklisted"} ELSE {})

\* parseBlocklistForCIDR: the address entries of the listing that lie in cidr
parseBlocklistForCIDR(listing, cidr) ==
    SelectSeq(listing, LAMBDA e : e.kind # "cidr" /\ isIPInCIDR(e.ip, cidr))

\* the clients evicted if only the first CIDR block were looked at
evictionsFirstBlock(cidrs, activeClients) ==
    SelectSeq(activeClients, LAMBDA c : isIPInCIDR(c.ip, Head(cidrs)))

\* fetchIP and fetchID: the error of the extraction ("" is nil)
fetchIP(c) == IF c.ip \in IPs THEN "" ELSE "MalformedDescriptor"
fetchID(c) == IF c.id # NoID THEN "" ELSE "MalformedDescriptor"
\* the error the loop body of AddClientEviction meets at a client it handles
fetchErr(c) == IF fetchIP(c) # "" THEN fetchIP(c) ELSE fetchID(c)

\* the clients the loops of AddClientEviction handle, in their order: for
\* each CIDR block, each client whose address cannot be extracted or is in
\* the block
RECURSIVE visited(_, _)
visited(cidrs, activeClients) ==
    IF cidrs = <<>> THEN <<>>
    ELSE SelectSeq(activeClients,
                   LAMBDA c : fetchIP(c) # "" \/ isIPInCIDR(c.ip, Head(cidrs)))
             \o visited(Tail(cidrs), activeClients)

\* the loops leave at the first client whose address or id cannot be extracted
RECURSIVE UpToError(_)
UpToError(clients) ==
    IF clients = <<>> THEN <<>>
    ELSE IF fetchErr(Head(clients)) # "" THEN <<Head(clients)>>
    ELSE <<Head(clients)>> \o UpToError(Tail(clients))

\* the clients evicted if a client that cannot be parsed were passed over
evictionsSkipMalformed(cidrs, activeClients) ==
    SelectSeq(visited(cidrs, activeClients), LAMBDA c : fetchErr(c) = "")

\* the clients of the listing that AddClientEviction handles, in its order:
\* those it evicts and, last, the one at which it returns an error
evictions(cidrs, activeClients) ==
    UpToError(visited(cidrs, activeClients))

\* the entries removed if only the first CIDR block were looked at
removalsFirstBlock(cidrs, listing) ==
    parseBlocklistForCIDR(listing, Head(cidrs))

\* the entries RemoveClientEviction removes after the listing, in its order
RECURSIVE removals(_, _)
removals(cidrs, listing) ==
    IF cidrs = <<>> THEN <<>>
    ELSE parseBlocklistForCIDR(listing, Head(cidrs))
             \o removals(Tail(cidrs), listing)

Fencers == {"f1", "f2"}
\* The locals of a fencing call: op is the entry point called; cidr is nf.Cidr;
\* i the index of the CIDR block of the loop; hosts the addresses of that
\* block still to handle; todo the clients still to evict, or the entries
\* still to remove; listing what the call listed; log the commands it issued
\* and their answers.
NoCall ==
    [pc |-> "idle", op |-> "", cidr |-> <<>>, i |-> 0,
     hasBlocklistRangeSupport |-> TRUE, hosts |-> <<>>, todo |-> <<>>,
     listing |-> <<>>, log |-> <<>>, result |-> ""]

\* The locals of a getIPRange call: ipnet is the block, ip the loop variable,
\* hosts the slice returned.
NoExpand ==
    [pc |-> "idle", ipnet |-> [ip |-> IPOf(0), len |-> 0], ip |-> IPOf(0),
     hosts |-> <<>>]

\* The last call of an operation on the state tag: op the function, ri the
\* VolID of its receiver, copyOnlyPassphrase its argument, err the error it
\* returned ("" is nil), n the parity of the number of calls made.
NoTagCall ==
    [op |-> "", ri |-> "", copyOnlyPassphrase |-> FALSE, err |-> "", n |-> 0]

\* checkRbdImageEncrypted: the state read from the image metadata
checkRbdImageEncrypted == metadata

\* the volume of the rotation, the lock and the attempts
VolumeInit ==
    /\ isBlockEncrypted \in BOOLEAN
    /\ metadata \in EncryptionStates
    /\ kms = IF metadata = rbdImageEncryptionUnknown THEN NoKey ELSE InitialKey
    /\ luks = [s \in Slots |->
                 IF metadata = rbdImageEncrypted /\ s = luksSlot0
                 THEN InitialKey ELSE NoKey]
    /\ lockHolder = NoLocker
    /\ lockExpiry = 0
    /\ lockOwner = NoAttempt
    /\ now = 0
    /\ rot = [a \in Attempts |-> Fresh]
    /\ call = NoTagCall

\* no fencing: a cluster with its clients and an empty blocklist
FenceInit ==
    /\ gateway = "range"
    /\ blocklist = {}
    /\ sessions = Clients
    /\ prior = {}
    /\ fence = [f \in Fencers |-> NoCall]
    /\ expand = [f \in Fencers |-> NoExpand]

Init ==
    /\ VolumeInit
    /\ parent = NoParent
    /\ FenceInit

\* a rotation that returned an error after it had passed the preconditions
FailedRotation(b) ==
    /\ rot[b].pc = "done"
    /\ rot[b].result \notin {"ok", "Unsupported", "StateCheckFailed"}

\* RotateEncryptionKey as it would be if it refused only the state Unknown
\* (currState == rbdImageEncryptionUnknown)
RotateEncryptionKeyUnknownOnly(a) ==
    /\ rot[a].pc = "idle"
    /\ \E metaErr \in BOOLEAN, ioctxErr \in BOOLEAN :
         LET res == IF ~isBlockEncrypted THEN "Unsupported"
                    ELSE IF metaErr THEN "StateCheckFailed"
                    ELSE IF checkRbdImageEncrypted = rbdImageEncryptionUnknown
                         THEN "Unsupported"
                    ELSE IF ioctxErr THEN "IoctxFailed"
                    ELSE ""
         IN  IF res # ""
             THEN Return(a, "precondition", res)
             ELSE Call(a, [rot[a] EXCEPT
                             !.timedDeadline = now + ExecutionTimeout,
                             !.retry = \E b \in Attempts : FailedRotation(b)],
                       "lock", CtxDone(a))
    /\ UNCHANGED <<fenceVars, call, parent, volumeVars, luks, kms, lockVars, now>>

\* RotateEncryptionKey up to the call of LockExclusive: the preconditions,
\* openIoctx, and timedCtx
RotateEncryptionKey(a) ==
    /\ rot[a].pc = "idle"
    /\ \E metaErr \in BOOLEAN, ioctxErr \in BOOLEAN :
         LET res == IF ~isBlockEncrypted THEN "Unsupported"
                    ELSE IF metaErr THEN "StateCheckFailed"
                    ELSE IF checkRbdImageEncrypted # rbdImageEncrypted
                         THEN "Unsupported"
                    ELSE IF ioctxErr THEN "IoctxFailed"
                    ELSE ""
         IN  IF res # ""
             THEN Return(a, "precondition", res)
             ELSE Call(a, [rot[a] EXCEPT
                             !.timedDeadline = now + ExecutionTimeout,
                             !.retry = \E b \in Attempts : FailedRotation(b)],
                       "lock", CtxDone(a))
    /\ UNCHANGED <<fenceVars, call, parent, volumeVars, luks, kms, lockVars, now>>

\* lck.LockExclusive(ctx)
LockExclusive(a) ==
    /\ rot[a].pc = "lock"
    /\ \/ /\ rot[a].started
          /\ ~LockHeld
          /\ lockHolder' = Locker(a)
          /\ lockExpiry' = now + lockDuration
          /\ lockOwner' = a
          /\ Call(a, [rot[a] EXCEPT !.acquired = TRUE], "waitForPath", FALSE)
       \/ /\ Return(a, "lock",
                    IF ~rot[a].started \/ CtxDone(a) THEN CtxErr(a)
                    ELSE "LockUnavailable")
          /\ UNCHANGED lockVars
    /\ UNCHANGED <<fenceVars, call, parent, volumeVars, luks, kms, now>>

\* lck.Unlock(ctx), deferred: removes the lock of this client and cookie
Unlock(a) ==
    /\ rot[a].pc = "unlock"
    /\ IF OwnsLock(a)
       THEN /\ lockHolder' = NoLocker
            /\ lockOwner' = NoAttempt
            /\ lockExpiry' = 0
       ELSE UNCHANGED lockVars
    /\ rot' = [rot EXCEPT ![a] = Returned([rot[a] EXCEPT !.released = TRUE])]
    /\ UNCHANGED <<fenceVars, call, parent, volumeVars, luks, kms, now>>

\* waitForPath as it would be with the Unlock deferred only after the device
\* was found: a device that is not found returns with the lock still held
waitForPathBeforeDefer(a) ==
    /\ rot[a].pc = "waitForPath"
    /\ \/ Call(a, rot[a], "fetch", CtxDone(a))
       \/ rot' = [rot EXCEPT ![a] =
                    Returned([rot[a] EXCEPT !.result = "DeviceNotFound"])]
    /\ UNCHANGED <<fenceVars, call, parent, volumeVars, luks, kms, lockVars, now>>

\* waitForPath: bounded discovery of the mapped device
waitForPath(a) ==
    /\ rot[a].pc = "waitForPath"
    /\ \/ Call(a, rot[a], "fetch", CtxDone(a))
       \/ Return(a, "waitForPath", "DeviceNotFound")
    /\ UNCHANGED <<fenceVars, call, parent, volumeVars, luks, kms, lockVars, now>>

\* Step 1: rv.blockEncryption.GetCryptoPassphrase(ctx, rv.VolID)
GetCryptoPassphrase(a) ==
    /\ rot[a].pc = "fetch"
    /\ \/ /\ rot[a].started
          /\ kms # NoKey
          /\ Call(a, [rot[a] EXCEPT !.oldPassphrase = kms], "addBackup",
                  TimedCtxDone(a))
       \/ Return(a, "fetch",
                 IF ~rot[a].started \/ CtxDone(a) THEN CtxErr(a)
                 ELSE "CommandFailed")
    /\ UNCHANGED <<fenceVars, call, parent, volumeVars, luks, kms, lockVars, now>>

\* a luks command of attempt a under timedCtx with the outcomes outs; on
\* success the attempt calls next
LuksStep(a, step, outs, next, nextCtxDone) ==
    /\ rot[a].pc = step
    /\ \/ /\ ~rot[a].started
          /\ Return(a, step, CtxErr(a))
          /\ UNCHANGED luks
       \/ /\ rot[a].started
          /\ \E out \in outs :
               /\ luks' = out.luks
               /\ IF out.err = ""
                  THEN IF next = "return"
                       THEN Return(a, "", "ok")
                       ELSE Call(a, rot[a], next, nextCtxDone)
                  ELSE Return(a, step,
                              IF out.err = "CommandFailed" /\ TimedCtxDone(a)
                              THEN CtxErr(a) ELSE out.err)
    /\ UNCHANGED <<fenceVars, call, parent, volumeVars, kms, lockVars, now>>

\* Step 2 as it would be if an occupied slot 1 were taken for the backup
AddKeySlot1KeepsOccupied(a) ==
    LuksStep(a, "addBackup",
             IF luks[luksSlot1] # NoKey
             THEN {[err |-> "", luks |-> luks]}
             ELSE AddKey(luks, rot[a].oldPassphrase, rot[a].oldPassphrase,
                         luksSlot1),
             "genKey", FALSE)

\* Step 2: luks.AddKey(devicePath, oldPassphrase, oldPassphrase, luksSlot1)
AddKeySlot1(a) ==
    LuksStep(a, "addBackup",
             AddKey(luks, rot[a].oldPassphrase, rot[a].oldPassphrase,
                    luksSlot1),
             "genKey", FALSE)

\* Step 3, first half, as it would be with StoreNewCryptoPassphrase, which
\* stores the passphrase it generates in the KMS at once
GetNewCryptoPassphraseStored(a) ==
    /\ rot[a].pc = "genKey"
    /\ \/ /\ kms' = NewKey(a)
          /\ Call(a, [rot[a] EXCEPT !.newPassphrase = NewKey(a)],
                  "installNew", TimedCtxDone(a))
       \/ /\ Return(a, "genKey", "KeyGenFailed")
          /\ UNCHANGED kms
    /\ UNCHANGED <<fenceVars, call, parent, volumeVars, luks, lockVars, now>>

\* Step 3, first half: rv.blockEncryption.GetNewCryptoPassphrase(size)
GetNewCryptoPassphrase(a) ==
    /\ rot[a].pc = "genKey"
    /\ \/ Call(a, [rot[a] EXCEPT !.newPassphrase = NewKey(a)], "installNew",
               TimedCtxDone(a))
       \/ Return(a, "genKey", "KeyGenFailed")
    /\ UNCHANGED <<fenceVars, call, parent, volumeVars, luks, kms, lockVars, now>>

\* Step 3, second half, as it would be with the backup removed right after the
\* install, before the KMS holds the new passphrase
AddKeySlot0ThenRemove(a) ==
    LuksStep(a, "installNew",
             {IF out.err = ""
              THEN [out EXCEPT !.luks = [out.luks EXCEPT ![luksSlot1] = NoKey]]
              ELSE out :
                out \in AddKey(luks, rot[a].oldPassphrase,
                               rot[a].newPassphrase, luksSlot0)},
             "kmsUpdate", TimedCtxDone(a))

\* Step 3, second half, as it would be with the error of AddKey dropped
AddKeySlot0Unchecked(a) ==
    LuksStep(a, "installNew",
             {[out EXCEPT !.err = ""] :
                out \in AddKey(luks, rot[a].oldPassphrase,
                               rot[a].newPassphrase, luksSlot0)},
             "kmsUpdate", TimedCtxDone(a))

\* Step 3, second half: luks.AddKey(devicePath, oldPassphrase, newPassphrase,
\* luksSlot0)
AddKeySlot0(a) ==
    LuksStep(a, "installNew",
             AddKey(luks, rot[a].oldPassphrase, rot[a].newPassphrase,
                    luksSlot0),
             "kmsUpdate", TimedCtxDone(a))

\* Step 4: rv.blockEncryption.StoreCryptoPassphrase(timedCtx, VolID, new)
StoreCryptoPassphrase(a) ==
    /\ rot[a].pc = "kmsUpdate"
    /\ \/ /\ rot[a].started
          /\ kms' = rot[a].newPassphrase
          /\ Call(a, rot[a], "removeBackup", TimedCtxDone(a))
       \/ /\ Return(a, "kmsUpdate",
                    IF ~rot[a].started \/ TimedCtxDone(a) THEN CtxErr(a)
                    ELSE "CommandFailed")
          /\ UNCHANGED kms
    /\ UNCHANGED <<fenceVars, call, parent, volumeVars, luks, lockVars, now>>

\* Step 5 as it would be with the key to remove mixed up: slot 0, with the
\* old passphrase
RemoveKeySlot0(a) ==
    LuksStep(a, "removeBackup",
             RemoveKey(luks, rot[a].oldPassphrase, luksSlot0),
             "return", FALSE)

\* Step 5 as it would be with the error of RemoveKey dropped
RemoveKeySlot1Unchecked(a) ==
    LuksStep(a, "removeBackup",
             {[out EXCEPT !.err = ""] :
                out \in RemoveKey(luks, rot[a].newPassphrase, luksSlot1)},
             "return", FALSE)

\* Step 5: luks.RemoveKey(devicePath, newPassphrase, luksSlot1)
RemoveKeySlot1(a) ==
    LuksStep(a, "removeBackup",
             RemoveKey(luks, rot[a].newPassphrase, luksSlot1),
             "return", FALSE)

\* the caller's ctx of a running attempt is cancelled (or its deadline passes)
Cancel(a) ==
    /\ rot[a].pc \in LockedSteps \cup {"lock"}
    /\ ~rot[a].cancelled
    /\ rot' = [rot EXCEPT ![a].cancelled = TRUE]
    /\ UNCHANGED <<fenceVars, call, parent, volumeVars, luks, kms, lockVars, now>>

\* a call that returns before time goes on: local work, the lock request, the
\* bounded device discovery, the deferred Unlock, and a command whose context
\* is done
Prompt(a) ==
    \/ rot[a].pc \in {"lock", "waitForPath", "genKey", "unlock"}
    \/ rot[a].pc \in TimedSteps /\ TimedCtxDone(a)
    \/ rot[a].pc = "fetch" /\ CtxDone(a)

Tick ==
    /\ now < MaxTime
    /\ \A a \in Attempts : ~Prompt(a)
    /\ now' = now + 1
    /\ UNCHANGED <<fenceVars, call, parent, volumeVars, luks, kms, lockVars, rot>>

Step(a) ==
    \/ LockExclusive(a)
    \/ waitForPath(a)
    \/ GetCryptoPassphrase(a)
    \/ AddKeySlot1(a)
    \/ GetNewCryptoPassphrase(a)
    \/ AddKeySlot0(a)
    \/ StoreCryptoPassphrase(a)
    \/ RemoveKeySlot1(a)
    \/ Unlock(a)
    \/ Cancel(a)

\* rotations invoked at any time, also while others run
Next ==
    \/ \E a \in Attempts : RotateEncryptionKey(a)
    \/ \E a \in Attempts : Step(a)
    \/ Tick

Spec == Init /\ [][Next]_vars

\* rotations invoked one after the other: a caller that re-invokes a rotation
\* when the previous call has returned
Running(a) == rot[a].pc \notin {"idle", "done"}

NextSerial ==
    \/ \E a \in Attempts :
         /\ \A b \in Attempts : ~Running(b)
         /\ RotateEncryptionKey(a)
    \/ \E a \in Attempts : Step(a)
    \/ Tick

SpecSerial == Init /\ [][NextSerial]_vars

\* ------------------------------------------------- encryption state tag
\* the passphrase StoreNewCryptoPassphrase generates: one the KMS does not hold
NewDEK == IF kms = InitialKey THEN "p1" ELSE InitialKey

\* the VolID of the volume and of the image it is cloned from
VolID == "volume"
ParentVolID == "parent"

\* the errors of SetMetadata (and, in copyEncryptionConfig, of the read of the
\* status before it); "" is nil
MetadataErrs == {"", "SetMetadataFailed"}
\* the errors of the operations on the state tag
TagErrs ==
    MetadataErrs \cup
        {"StoreFailed", "GetPassphraseFailed", "EncryptVolumeFailed", "BUG"}

\* ensureEncryptionMetadataSet(status) returning err: SetMetadata writes the
\* tag, or fails and leaves it
ensureEncryptionMetadataSetErr(status, err) ==
    metadata' = IF err = "" THEN status ELSE metadata

ensureEncryptionMetadataSet(status) ==
    \E err \in MetadataErrs : ensureEncryptionMetadataSetErr(status, err)

\* setupBlockEncryption as it would be if the tag were written before the
\* passphrase is stored
setupBlockEncryptionTagFirst(err) ==
    /\ isBlockEncrypted
    /\ err \in MetadataErrs \cup {"StoreFailed"}
    /\ IF err = "SetMetadataFailed" THEN UNCHANGED <<kms, metadata>>
       ELSE /\ metadata' = rbdImageEncryptionPrepared
            /\ kms' = IF err = "" THEN NewDEK ELSE kms
    /\ UNCHANGED <<fenceVars, parent, isBlockEncrypted, luks, lockVars, now,
                   rot>>

\* setupBlockEncryption returning err: StoreNewCryptoPassphrase, then the tag
\* Prepared
setupBlockEncryptionErr(err) ==
    /\ isBlockEncrypted
    /\ err \in MetadataErrs \cup {"StoreFailed"}
    /\ IF err = "StoreFailed" THEN UNCHANGED <<kms, metadata>>
       ELSE /\ kms' = NewDEK
            /\ ensureEncryptionMetadataSetErr(rbdImageEncryptionPrepared, err)
    /\ UNCHANGED <<fenceVars, parent, isBlockEncrypted, luks, lockVars, now,
                   rot>>

\* encryptDevice returning err: the passphrase of the KMS, EncryptVolume (a
\* fresh LUKS header with the passphrase in slot 0), then the tag Encrypted
encryptDeviceErr(err) ==
    /\ isBlockEncrypted
    /\ err \in MetadataErrs \cup {"GetPassphraseFailed", "EncryptVolumeFailed"}
    /\ IF err = "GetPassphraseFailed" THEN UNCHANGED <<luks, metadata>>
       ELSE /\ kms # NoKey
            /\ IF err = "EncryptVolumeFailed" THEN UNCHANGED <<luks, metadata>>
               ELSE /\ luks' = [s \in Slots |->
                                  IF s = luksSlot0 THEN kms ELSE NoKey]
                    /\ ensureEncryptionMetadataSetErr(rbdImageEncrypted, err)
    /\ UNCHANGED <<fenceVars, parent, isBlockEncrypted, kms, lockVars, now,
                   rot>>

\* copyEncryptionConfig as it would be if the passphrase were stored under the
\* VolID of the source, where it is already: nothing is stored for the volume
copyEncryptionConfigUnderSource(copyOnlyPassphrase, err) ==
    /\ err = ""
    /\ parent.binding = "block" /\ parent.passphrase # NoKey
    /\ copyOnlyPassphrase => isBlockEncrypted
    /\ isBlockEncrypted' = TRUE
    /\ ensureEncryptionMetadataSetErr(parent.metadata, "")
    /\ UNCHANGED <<fenceVars, parent, kms, luks, lockVars, now, rot>>

\* ri.copyEncryptionConfig(ctx, cp, copyOnlyPassphrase) returning err, with ri
\* the parent and cp the volume: nothing for a parent that is not encrypted;
\* else the passphrase of the parent is stored for the volume, then the tag of
\* the parent is written as the tag of the volume
copyEncryptionConfigErr(copyOnlyPassphrase, err) ==
    /\ parent.binding = "block" /\ copyOnlyPassphrase => isBlockEncrypted
    /\ \/ /\ parent.binding = "none"
          /\ err = ""
          /\ UNCHANGED <<isBlockEncrypted, kms, metadata>>
       \/ /\ parent.binding = "block"
          /\ err \in MetadataErrs \cup {"GetPassphraseFailed", "StoreFailed"}
          /\ IF err = "GetPassphraseFailed"
             THEN UNCHANGED <<isBlockEncrypted, kms, metadata>>
             ELSE /\ parent.passphrase # NoKey
                  /\ isBlockEncrypted' = TRUE
                  /\ IF err = "StoreFailed" THEN UNCHANGED <<kms, metadata>>
                     ELSE /\ kms' = parent.passphrase
                          /\ ensureEncryptionMetadataSetErr(parent.metadata,
                                                            err)
       \/ /\ parent.binding = "file"
          /\ err \in MetadataErrs
          /\ ensureEncryptionMetadataSetErr(parent.metadata, err)
          /\ UNCHANGED <<isBlockEncrypted, kms>>
    /\ UNCHANGED <<fenceVars, parent, luks, lockVars, now, rot>>

\* ri.copyEncryptionConfig(ctx, cp, copyOnlyPassphrase) returning err, with ri
\* an rbdImage of the VolID of the volume cp: nothing when ri has no binding,
\* else the error of the test ri.VolID == cp.VolID
copyEncryptionConfigSameVolIDErr(copyOnlyPassphrase, err) ==
    /\ err = IF isBlockEncrypted THEN "BUG" ELSE ""
    /\ UNCHANGED <<fenceVars, parent, volumeVars, kms, luks, lockVars, now,
                   rot>>

\* repairEncryptionConfig returning err: the configuration of the parent is
\* copied to a volume that has no binding (a file-encrypted parent; its tag is
\* copied)
repairEncryptionConfigErr(err) ==
    /\ parent.binding = "file"
    /\ ~isBlockEncrypted
    /\ copyEncryptionConfigErr(TRUE, err)

\* the operations, whatever they return
setupBlockEncryption ==
    /\ \E err \in TagErrs : setupBlockEncryptionErr(err)
    /\ UNCHANGED call
encryptDevice ==
    /\ \E err \in TagErrs : encryptDeviceErr(err)
    /\ UNCHANGED call
copyEncryptionConfig(copyOnlyPassphrase) ==
    /\ \E err \in TagErrs : copyEncryptionConfigErr(copyOnlyPassphrase, err)
    /\ UNCHANGED call
repairEncryptionConfig ==
    /\ \E err \in TagErrs : repairEncryptionConfigErr(err)
    /\ UNCHANGED call

\* the volume with the operations of its life, and one rotation attempt
TagAttempt == "a1"
NextTag ==
    \/ setupBlockEncryption
    \/ encryptDevice
    \/ \E copyOnlyPassphrase \in BOOLEAN :
         copyEncryptionConfig(copyOnlyPassphrase)
    \/ repairEncryptionConfig
    \/ RotateEncryptionKey(TagAttempt)
    \/ Step(TagAttempt)
    \/ Tick

\* a parent as the operations leave one: without binding it has no passphrase
\* and no tag; a file-encrypted one has no tag; a block-encrypted one has a
\* passphrase once it has a tag
InitTag ==
    /\ VolumeInit
    /\ parent \in {p \in Parents :
                     /\ p.binding = "none" =>
                            p.passphrase = NoKey
                            /\ p.metadata = rbdImageEncryptionUnknown
                     /\ p.binding = "file" =>
                            p.metadata = rbdImageEncryptionUnknown
                     /\ p.binding = "block"
                        /\ p.metadata # rbdImageEncryptionUnknown =>
                            p.passphrase = ParentKey}
    /\ FenceInit

SpecTag == InitTag /\ [][NextTag]_vars

\* `return err` of a call of op on the receiver of VolID ri
TagReturn(op, ri, copyOnlyPassphrase, err) ==
    call' = [op |-> op, ri |-> ri, copyOnlyPassphrase |-> copyOnlyPassphrase,
             err |-> err, n |-> 1 - call.n]

\* the calls of the operations with what they return
setupBlockEncryptionCall ==
    \E err \in TagErrs :
        /\ setupBlockEncryptionErr(err)
        /\ TagReturn("setupBlockEncryption", VolID, FALSE, err)
encryptDeviceCall ==
    \E err \in TagErrs :
        /\ encryptDeviceErr(err)
        /\ TagReturn("encryptDevice", VolID, FALSE, err)
copyEncryptionConfigCall ==
    \E copyOnlyPassphrase \in BOOLEAN, err \in TagErrs :
        /\ copyEncryptionConfigErr(copyOnlyPassphrase, err)
        /\ TagReturn("copyEncryptionConfig", ParentVolID, copyOnlyPassphrase,
                     err)
copyEncryptionConfigSameVolIDCall ==
    \E copyOnlyPassphrase \in BOOLEAN, err \in TagErrs :
        /\ copyEncryptionConfigSameVolIDErr(copyOnlyPassphrase, err)
        /\ TagReturn("copyEncryptionConfig", VolID, copyOnlyPassphrase, err)
repairEncryptionConfigCall ==
    \E err \in TagErrs :
        /\ repairEncryptionConfigErr(err)
        /\ TagReturn("repairEncryptionConfig", ParentVolID, TRUE, err)

\* the volume and the image it is cloned from, with the calls of the
\* operations on the state tag one after the other
NextCopy ==
    \/ setupBlockEncryptionCall
    \/ encryptDeviceCall
    \/ copyEncryptionConfigCall
    \/ copyEncryptionConfigSameVolIDCall
    \/ repairEncryptionConfigCall

SpecCopy == InitTag /\ [][NextCopy]_vars

\* ---------------------------------------------------------------- fencing
rotationVars ==
    <<isBlockEncrypted, metadata, luks, kms, lockHolder, lockExpiry,
      lockOwner, now, rot, parent, call>>

\* the call with the command cmd it issued and the answer res it got
Logged(r, cmd, useRange, arg, id, res) ==
    [r EXCEPT !.log = Append(@, [cmd |-> cmd, range |-> useRange, arg |-> arg,
                                 id |-> id, res |-> res])]

\* `return err` of a fencing call (nil is "ok")
FenceReturn(r, err) ==
    [r EXCEPT !.pc = "done", !.result = err, !.hosts = <<>>, !.todo = <<>>]

\* the head of the loop over nf.Cidr: the next CIDR block, by a range command
\* or, after the downgrade, by its hosts; past the last block the function
\* returns nil
NextCidr(r) ==
    IF r.i <= Len(r.cidr)
    THEN IF r.hasBlocklistRangeSupport THEN r
         ELSE [r EXCEPT !.hosts = getIPRange(r.cidr[r.i])]
    ELSE IF r.pc = "remove" /\ r.op = "RemoveClientEviction"
         THEN [r EXCEPT !.pc = "ls"]
         ELSE FenceReturn(r, "ok")

\* entry of AddNetworkFence and of RemoveNetworkFence
EnterLoop(r, pc) ==
    NextCidr([r EXCEPT !.pc = pc, !.hasBlocklistRangeSupport = TRUE, !.i = 1])

\* a fencer makes a call with a NetworkFence of a request
NewNetworkFence(f, op) ==
    /\ fence[f].pc = "idle"
    /\ \E cidr \in CidrLists :
         LET r == [NoCall EXCEPT !.op = op, !.cidr = cidr]
         IN  fence' = [fence EXCEPT ![f] =
                 IF op = "AddNetworkFence" THEN EnterLoop(r, "add")
                 ELSE IF op \in {"RemoveNetworkFence", "RemoveClientEviction"}
                      THEN EnterLoop(r, "remove")
                 ELSE [r EXCEPT !.pc = "clients"]]
    /\ UNCHANGED <<rotationVars, expand, gateway, blocklist, sessions, prior>>

AddNetworkFence(f) == NewNetworkFence(f, "AddNetworkFence")
RemoveNetworkFence(f) == NewNetworkFence(f, "RemoveNetworkFence")
AddClientEviction(f) == NewNetworkFence(f, "AddClientEviction")
RemoveClientEviction(f) == NewNetworkFence(f, "RemoveClientEviction")

\* AddNetworkFence as it would be with the downgrade made for one CIDR block
\* only: hasBlocklistRangeSupport stays true
AddNetworkFenceRangePerBlock(f) ==
    LET r == fence[f]
        e == addCephBlocklistEntry(r.cidr[r.i], TRUE)
    IN  /\ r.pc = "add" /\ r.hosts = <<>> /\ r.hasBlocklistRangeSupport
        /\ \E res \in Answers(TRUE) :
             LET r1 == Logged(r, "add", TRUE, e, 0, res)
             IN  IF res = "ok"
                 THEN /\ blocklist' = blocklist \cup {e}
                      /\ fence' = [fence EXCEPT ![f] =
                                     NextCidr([r1 EXCEPT !.i = r.i + 1])]
                 ELSE /\ UNCHANGED blocklist
                      /\ fence' = [fence EXCEPT ![f] =
                           IF res # invalidCommandStr THEN FenceReturn(r1, res)
                           ELSE [r1 EXCEPT
                                    !.hosts = getIPRange(r.cidr[r.i])]]
        /\ UNCHANGED <<rotationVars, expand, gateway, sessions, prior>>

\* AddNetworkFence as it would be without the test for invalidCommandStr: any
\* error of the range command is returned
AddNetworkFenceRangeNoDowngrade(f) ==
    LET r == fence[f]
        e == addCephBlocklistEntry(r.cidr[r.i], TRUE)
    IN  /\ r.pc = "add" /\ r.hosts = <<>> /\ r.hasBlocklistRangeSupport
        /\ \E res \in Answers(TRUE) :
             LET r1 == Logged(r, "add", TRUE, e, 0, res)
             IN  IF res = "ok"
                 THEN /\ blocklist' = blocklist \cup {e}
                      /\ fence' = [fence EXCEPT ![f] =
                                     NextCidr([r1 EXCEPT !.i = r.i + 1])]
                 ELSE /\ UNCHANGED blocklist
                      /\ fence' = [fence EXCEPT ![f] = FenceReturn(r1, res)]
        /\ UNCHANGED <<rotationVars, expand, gateway, sessions, prior>>

\* AddNetworkFence as it would be if it looked the entry up first and refused
\* to block a range that is blocked already
AddNetworkFenceRangeStrict(f) ==
    LET r == fence[f]
        e == addCephBlocklistEntry(r.cidr[r.i], TRUE)
    IN  /\ r.pc = "add" /\ r.hosts = <<>> /\ r.hasBlocklistRangeSupport
        /\ \E res \in Answers(TRUE) :
             LET r1 == Logged(r, "add", TRUE, e, 0, res)
             IN  IF res = "ok"
                 THEN /\ blocklist' = blocklist \cup {e}
                      /\ fence' = [fence EXCEPT ![f] =
                             IF e \in blocklist
                             THEN FenceReturn(r1, "AlreadyBlocked")
                             ELSE NextCidr([r1 EXCEPT !.i = r.i + 1])]
                 ELSE /\ UNCHANGED blocklist
                      /\ fence' = [fence EXCEPT ![f] =
                           IF res # invalidCommandStr THEN FenceReturn(r1, res)
                           ELSE NextCidr([r1 EXCEPT
                                    !.hasBlocklistRangeSupport = FALSE])]
        /\ UNCHANGED <<rotationVars, expand, gateway, sessions, prior>>

\* AddNetworkFence, the range command of a CIDR block
AddNetworkFenceRange(f) ==
    LET r == fence[f]
        e == addCephBlocklistEntry(r.cidr[r.i], TRUE)
    IN  /\ r.pc = "add" /\ r.hosts = <<>> /\ r.hasBlocklistRangeSupport
        /\ \E res \in Answers(TRUE) :
             LET r1 == Logged(r, "add", TRUE, e, 0, res)
             IN  IF res = "ok"
                 THEN /\ blocklist' = blocklist \cup {e}
                      /\ fence' = [fence EXCEPT ![f] =
                                     NextCidr([r1 EXCEPT !.i = r.i + 1])]
                 ELSE /\ UNCHANGED blocklist
                      /\ fence' = [fence EXCEPT ![f] =
                           IF res # invalidCommandStr THEN FenceReturn(r1, res)
                           ELSE NextCidr([r1 EXCEPT
                                    !.hasBlocklistRangeSupport = FALSE])]
        /\ UNCHANGED <<rotationVars, expand, gateway, sessions, prior>>

\* AddNetworkFence as it would be if it went on with the next host after a
\* command for a host has failed
AddNetworkFenceHostsGoOn(f) ==
    LET r == fence[f]
        e == addCephBlocklistEntry(Head(r.hosts), FALSE)
    IN  /\ r.pc = "add" /\ r.hosts # <<>>
        /\ \E res \in Answers(FALSE) :
             LET r1 == Logged(r, "add", FALSE, e, 0, res)
             IN  /\ blocklist' = IF res = "ok" THEN blocklist \cup {e}
                                 ELSE blocklist
                 /\ fence' = [fence EXCEPT ![f] =
                      IF Tail(r.hosts) # <<>>
                      THEN [r1 EXCEPT !.hosts = Tail(r.hosts)]
                      ELSE NextCidr([r1 EXCEPT !.hosts = <<>>,
                                               !.i = r.i + 1])]
        /\ UNCHANGED <<rotationVars, expand, gateway, sessions, prior>>

\* AddNetworkFence, the command for a host of the CIDR block
AddNetworkFenceHosts(f) ==
    LET r == fence[f]
        e == addCephBlocklistEntry(Head(r.hosts), FALSE)
    IN  /\ r.pc = "add" /\ r.hosts # <<>>
        /\ \E res \in Answers(FALSE) :
             LET r1 == Logged(r, "add", FALSE, e, 0, res)
             IN  IF res = "ok"
                 THEN /\ blocklist' = blocklist \cup {e}
                      /\ fence' = [fence EXCEPT ![f] =
                           IF Tail(r.hosts) # <<>>
                           THEN [r1 EXCEPT !.hosts = Tail(r.hosts)]
                           ELSE NextCidr([r1 EXCEPT !.hosts = <<>>,
                                                    !.i = r.i + 1])]
                 ELSE /\ UNCHANGED blocklist
                      /\ fence' = [fence EXCEPT ![f] = FenceReturn(r1, res)]
        /\ UNCHANGED <<rotationVars, expand, gateway, sessions, prior>>

\* RemoveNetworkFence, the range command of a CIDR block
RemoveNetworkFenceRange(f) ==
    LET r == fence[f]
        e == removeCephBlocklistEntry(r.cidr[r.i], "", TRUE)
    IN  /\ r.pc = "remove" /\ r.hosts = <<>> /\ r.hasBlocklistRangeSupport
        /\ \E res \in RemoveAnswers(e, TRUE) :
             LET r1 == Logged(r, "rm", TRUE, e, 0, res)
             IN  IF res = "ok"
                 THEN /\ blocklist' = blocklist \ {e}
                      /\ fence' = [fence EXCEPT ![f] =
                                     NextCidr([r1 EXCEPT !.i = r.i + 1])]
                 ELSE /\ UNCHANGED blocklist
                      /\ fence' = [fence EXCEPT ![f] =
                           IF res # invalidCommandStr THEN FenceReturn(r1, res)
                           ELSE NextCidr([r1 EXCEPT
                                    !.hasBlocklistRangeSupport = FALSE])]
        /\ UNCHANGED <<rotationVars, expand, gateway, sessions, prior>>

\* RemoveNetworkFence as it would be if it unblocked the first host of a CIDR
\* block only
RemoveNetworkFenceHostsFirstOnly(f) ==
    LET r == fence[f]
        e == removeCephBlocklistEntry(Head(r.hosts), "0", FALSE)
    IN  /\ r.pc = "remove" /\ r.hosts # <<>>
        /\ \E res \in RemoveAnswers(e, FALSE) :
             LET r1 == Logged(r, "rm", FALSE, e, 0, res)
             IN  IF res = "ok"
                 THEN /\ blocklist' = blocklist \ {e}
                      /\ fence' = [fence EXCEPT ![f] =
                           NextCidr([r1 EXCEPT !.hosts = <<>>,
                                               !.i = r.i + 1])]
                 ELSE /\ UNCHANGED blocklist
                      /\ fence' = [fence EXCEPT ![f] = FenceReturn(r1, res)]
        /\ UNCHANGED <<rotationVars, expand, gateway, sessions, prior>>

\* RemoveNetworkFence, the command for a host of the CIDR block (nonce "0")
RemoveNetworkFenceHosts(f) ==
    LET r == fence[f]
        e == removeCephBlocklistEntry(Head(r.hosts), "0", FALSE)
    IN  /\ r.pc = "remove" /\ r.hosts # <<>>
        /\ \E res \in RemoveAnswers(e, FALSE) :
             LET r1 == Logged(r, "rm", FALSE, e, 0, res)
             IN  IF res = "ok"
                 THEN /\ blocklist' = blocklist \ {e}
                      /\ fence' = [fence EXCEPT ![f] =
                           IF Tail(r.hosts) # <<>>
                           THEN [r1 EXCEPT !.hosts = Tail(r.hosts)]
                           ELSE NextCidr([r1 EXCEPT !.hosts = <<>>,
                                                    !.i = r.i + 1])]
                 ELSE /\ UNCHANGED blocklist
                      /\ fence' = [fence EXCEPT ![f] = FenceReturn(r1, res)]
        /\ UNCHANGED <<rotationVars, expand, gateway, sessions, prior>>

\* AddClientEviction, listActiveClients: the clients to evict are those of the
\* listing, block by block; with none to evict AddNetworkFence follows
listActiveClients(f) ==
    LET r == fence[f]
    IN  /\ r.pc = "clients"
        /\ \E res \in {"ok", "CommandFailed"} :
             LET r1 == Logged(r, "clients", FALSE, NoEntry, 0, res)
                 activeClients == SeqOf(sessions)
                 todo == evictions(r.cidr, activeClients)
             IN  fence' = [fence EXCEPT ![f] =
                   IF res # "ok" THEN FenceReturn(r1, res)
                   ELSE IF todo = <<>>
                        THEN EnterLoop([r1 EXCEPT !.listing = activeClients],
                                       "add")
                   ELSE [r1 EXCEPT !.pc = "evict", !.todo = todo,
                                   !.listing = activeClients]]
        /\ UNCHANGED <<rotationVars, expand, gateway, blocklist, sessions, prior>>

\* AddClientEviction, evictCephFSClient: the session of the client is closed
\* and its address with its nonce is blocklisted; a session that is gone
\* already is no error.  After the last eviction AddNetworkFence follows.  A
\* client whose address or id cannot be extracted ends the call with the
\* error, before any command for it.
evictCephFSClient(f) ==
    LET r == fence[f]
        client == Head(r.todo)
    IN  /\ r.pc = "evict"
        /\ IF fetchErr(client) # ""
           THEN /\ UNCHANGED <<sessions, blocklist>>
                /\ fence' = [fence EXCEPT ![f] =
                               FenceReturn(r, fetchErr(client))]
           ELSE \E res \in {"ok", "CommandFailed"} :
             LET r1 == Logged(r, "evict", FALSE, ClientEntry(client),
                              client.id, res)
             IN  IF res = "ok"
                 THEN /\ sessions' = sessions \ {client}
                      /\ blocklist' = IF client \in sessions
                                      THEN blocklist \cup {ClientEntry(client)}
                                      ELSE blocklist
                      /\ fence' = [fence EXCEPT ![f] =
                           IF Tail(r.todo) # <<>>
                           THEN [r1 EXCEPT !.todo = Tail(r.todo)]
                           ELSE EnterLoop([r1 EXCEPT !.todo = <<>>], "add")]
                 ELSE /\ UNCHANGED <<sessions, blocklist>>
                      /\ fence' = [fence EXCEPT ![f] = FenceReturn(r1, res)]
        /\ UNCHANGED <<rotationVars, expand, gateway, prior>>

\* RemoveClientEviction, getCephBlocklist: the entries to remove are the
\* address entries of the listing, block by block
getCephBlocklist(f) ==
    LET r == fence[f]
    IN  /\ r.pc = "ls"
        /\ \E res \in {"ok", "CommandFailed"} :
             LET r1 == Logged(r, "ls", FALSE, NoEntry, 0, res)
                 listing == SeqOf(blocklist)
                 todo == removals(r.cidr, listing)
             IN  fence' = [fence EXCEPT ![f] =
                   IF res # "ok" THEN FenceReturn(r1, res)
                   ELSE IF todo = <<>>
                        THEN FenceReturn([r1 EXCEPT !.listing = listing], "ok")
                   ELSE [r1 EXCEPT !.pc = "rmEvicted", !.todo = todo,
                                   !.listing = listing]]
        /\ UNCHANGED <<rotationVars, expand, gateway, blocklist, sessions, prior>>

\* RemoveClientEviction as it would be if it removed a listed entry without
\* its nonce
RemoveClientEvictionHostsNoNonce(f) ==
    LET r == fence[f]
        host == Head(r.todo)
        e == removeCephBlocklistEntry(host.ip, "", FALSE)
    IN  /\ r.pc = "rmEvicted"
        /\ \E res \in RemoveAnswers(e, FALSE) :
             LET r1 == Logged(r, "rm", FALSE, e, 0, res)
             IN  IF res = "ok"
                 THEN /\ blocklist' = blocklist \ {e}
                      /\ fence' = [fence EXCEPT ![f] =
                           IF Tail(r.todo) # <<>>
                           THEN [r1 EXCEPT !.todo = Tail(r.todo)]
                           ELSE FenceReturn(r1, "ok")]
                 ELSE /\ UNCHANGED blocklist
                      /\ fence' = [fence EXCEPT ![f] = FenceReturn(r1, res)]
        /\ UNCHANGED <<rotationVars, expand, gateway, sessions, prior>>

\* RemoveClientEviction, the removal of a listed entry with its nonce
RemoveClientEvictionHosts(f) ==
    LET r == fence[f]
        host == Head(r.todo)
        e == removeCephBlocklistEntry(host.ip, host.nonce, FALSE)
    IN  /\ r.pc = "rmEvicted"
        /\ \E res \in RemoveAnswers(e, FALSE) :
             LET r1 == Logged(r, "rm", FALSE, e, 0, res)
             IN  IF res = "ok"
                 THEN /\ blocklist' = blocklist \ {e}
                      /\ fence' = [fence EXCEPT ![f] =
                           IF Tail(r.todo) # <<>>
                           THEN [r1 EXCEPT !.todo = Tail(r.todo)]
                           ELSE FenceReturn(r1, "ok")]
                 ELSE /\ UNCHANGED blocklist
                      /\ fence' = [fence EXCEPT ![f] = FenceReturn(r1, res)]
        /\ UNCHANGED <<rotationVars, expand, gateway, sessions, prior>>

\* a step of a fencing call that adds
AddStep(f) ==
    \/ AddNetworkFenceRange(f)
    \/ AddNetworkFenceHosts(f)
    \/ listActiveClients(f)
    \/ evictCephFSClient(f)

\* a step of a fencing call that removes
RemoveStep(f) ==
    \/ RemoveNetworkFenceRange(f)
    \/ RemoveNetworkFenceHosts(f)
    \/ getCephBlocklist(f)
    \/ RemoveClientEvictionHosts(f)

\* a cluster that recognises the range commands, only the commands for an
\* address, or neither
Gateways == {"range", "address", "none"}

InitFence ==
    /\ VolumeInit
    /\ isBlockEncrypted /\ metadata = rbdImageEncrypted
    /\ parent = NoParent
    /\ gateway \in Gateways
    /\ blocklist = {}
    /\ sessions = Clients
    /\ prior = blocklist
    /\ fence = [f \in Fencers |-> NoCall]
    /\ expand = [f \in Fencers |-> NoExpand]

\* the four operations, called concurrently by the fencers
NextFence ==
    \/ \E f \in Fencers : AddNetworkFence(f)
    \/ \E f \in Fencers : RemoveNetworkFence(f)
    \/ \E f \in Fencers : AddClientEviction(f)
    \/ \E f \in Fencers : RemoveClientEviction(f)
    \/ \E f \in Fencers : AddStep(f)
    \/ \E f \in Fencers : RemoveStep(f)

SpecFence == InitFence /\ [][NextFence]_vars

\* calls that add only: AddNetworkFence and AddClientEviction, concurrently
NextAdd ==
    \/ \E f \in Fencers : AddNetworkFence(f)
    \/ \E f \in Fencers : AddClientEviction(f)
    \/ \E f \in Fencers : AddStep(f)

SpecAdd == InitFence /\ [][NextAdd]_vars

\* AddClientEviction alone, called once, with sessions whose descriptors may
\* be malformed
Evictor == "f1"
InitEvict ==
    /\ VolumeInit
    /\ isBlockEncrypted /\ metadata = rbdImageEncrypted
    /\ parent = NoParent
    /\ gateway \in Gateways
    /\ blocklist = {}
    /\ sessions \in SUBSET (Clients \cup Malformed)
    /\ prior = blocklist
    /\ fence = [f \in Fencers |-> NoCall]
    /\ expand = [f \in Fencers |-> NoExpand]

NextEvict ==
    \/ AddClientEviction(Evictor)
    \/ listActiveClients(Evictor)
    \/ evictCephFSClient(Evictor)
    \/ AddNetworkFenceRange(Evictor)
    \/ AddNetworkFenceHosts(Evictor)

SpecEvict == InitEvict /\ [][NextEvict]_vars

\* the entries a blocklist holds before the calls: range and address entries
\* of the blocks of the requests, and the entry of an evicted client
PriorEntries ==
    {RangeEntry(CidrA), RangeEntry(CidrB), AddrEntry(IPOf(1), "0"),
     AddrEntry(IPOf(1), "n1")}

InitRoundTrip ==
    /\ VolumeInit
    /\ isBlockEncrypted /\ metadata = rbdImageEncrypted
    /\ parent = NoParent
    /\ gateway \in Gateways
    /\ blocklist \in SUBSET PriorEntries
    /\ sessions = Clients
    /\ prior = blocklist
    /\ fence = [f \in Fencers |-> NoCall]
    /\ expand = [f \in Fencers |-> NoExpand]

\* AddNetworkFence, and after it has returned nil RemoveNetworkFence of the
\* same CIDR blocks, with nothing else changing the blocklist
Adder == "f1"
Remover == "f2"
NextRoundTrip ==
    \/ AddNetworkFence(Adder)
    \/ AddNetworkFenceRange(Adder)
    \/ AddNetworkFenceHosts(Adder)
    \/ /\ fence[Adder].pc = "done" /\ fence[Adder].result = "ok"
       /\ RemoveNetworkFence(Remover)
       /\ fence'[Remover].cidr = fence[Adder].cidr
    \/ RemoveNetworkFenceRange(Remover)
    \/ RemoveNetworkFenceHosts(Remover)

SpecRoundTrip == InitRoundTrip /\ [][NextRoundTrip]_vars

\* RemoveClientEviction alone, called once: the blocklist before holds any of
\* the entries of the round trip, entries of evicted clients inside and
\* outside the blocks of the requests, and the range entry of another block;
\* a cluster without the range commands holds no range entry
CidrOther == [ip |-> IPOf(2), len |-> IPBytes]
EvictionEntries ==
    PriorEntries \cup {AddrEntry(IPOf(0), "n2"), AddrEntry(IPOf(2), "n3"),
                       RangeEntry(CidrOther)}
InitRemove ==
    /\ VolumeInit
    /\ isBlockEncrypted /\ metadata = rbdImageEncrypted
    /\ parent = NoParent
    /\ gateway \in Gateways
    /\ blocklist \in SUBSET EvictionEntries
    /\ gateway # "range" => \A e \in blocklist : e.kind # "cidr"
    /\ sessions = {}
    /\ prior = blocklist
    /\ fence = [f \in Fencers |-> NoCall]
    /\ expand = [f \in Fencers |-> NoExpand]

NextRemove ==
    \/ RemoveClientEviction(Remover)
    \/ RemoveNetworkFenceRange(Remover)
    \/ RemoveNetworkFenceHosts(Remover)
    \/ getCephBlocklist(Remover)
    \/ RemoveClientEvictionHosts(Remover)

SpecRemove == InitRemove /\ [][NextRemove]_vars

\* ---------------------------------------------------------- getIPRange
\* every valid CIDR block: any address, any prefix length
ValidCidrs == [ip : IPs, len : 0..IPBytes]
\* the length up to which the slice of getIPRange is followed
MaxHosts == 5

\* getIPRange(cidr) is called: net.ParseCIDR, and the loop variable starts at
\* netIP.Mask(ipnet.Mask)
getIPRangeCall(f) ==
    /\ expand[f].pc = "idle"
    /\ \E cidr \in ValidCidrs :
         LET parsed == ParseCIDR(cidr)
         IN  expand' = [expand EXCEPT ![f] =
                 [pc |-> "loop", ipnet |-> parsed.ipnet,
                  ip |-> Mask(parsed.netIP, parsed.ipnet.len),
                  hosts |-> <<>>]]
    /\ UNCHANGED <<rotationVars, gateway, blocklist, sessions, prior, fence>>

\* an iteration of the loop of getIPRange: while ipnet.Contains(ip) the
\* address is appended and incIP(ip) is applied
getIPRangeLoop(f) ==
    LET r == expand[f]
    IN  /\ r.pc = "loop"
        /\ Contains(r.ipnet, r.ip)
        /\ Len(r.hosts) < MaxHosts
        /\ expand' = [expand EXCEPT ![f] =
                         [r EXCEPT !.hosts = Append(r.hosts, r.ip),
                                   !.ip = incIP(r.ip)]]
        /\ UNCHANGED <<rotationVars, gateway, blocklist, sessions, prior,
                       fence>>

\* the loop of getIPRange ends and the slice is returned
getIPRangeReturn(f) ==
    LET r == expand[f]
    IN  /\ r.pc = "loop"
        /\ ~Contains(r.ipnet, r.ip)
        /\ expand' = [expand EXCEPT ![f] = [r EXCEPT !.pc = "done"]]
        /\ UNCHANGED <<rotationVars, gateway, blocklist, sessions, prior,
                       fence>>

\* getIPRange called by the fencers, each with a block of its own
NextRange ==
    \/ \E f \in Fencers : getIPRangeCall(f)
    \/ \E f \in Fencers : getIPRangeLoop(f)
    \/ \E f \in Fencers : getIPRangeReturn(f)

SpecRange == InitFence /\ [][NextRange]_vars


\* ================================================================ claims
old(a) == rot[a].oldPassphrase
new(a) == rot[a].newPassphrase

\* attempt a returns an error out of one of steps in this step
FailsAt(a, steps) ==
    /\ rot[a].pc \in steps
    /\ rot'[a].pc \in {"unlock", "done"}
    /\ rot'[a].result # "ok"

\* C1: during a rotation, from the passphrase fetch on, after every step and
\* after a failure or an interruption of any step, the old or the new
\* passphrase of that rotation opens the device.
C1_UnlockableThroughout ==
    \A a \in Attempts :
        old(a) # NoKey => Opens(luks, old(a)) \/ Opens(luks, new(a))

\* C1 witness: the install of the new key was interrupted after the old key of
\* slot 0 was wiped; only the backup opens the device.
C1_Witness ==
    \E a \in Attempts :
        /\ rot[a].pc = "unlock"
        /\ rot[a].failedAt = "installNew"
        /\ luks[luksSlot0] = NoKey
        /\ luks[luksSlot1] = old(a)

\* the attempt is executing the device/KMS steps of the sequence
InSequence(a) ==
    \/ rot[a].pc \in {"genKey", "installNew", "kmsUpdate", "removeBackup"}
    \/ rot[a].pc = "addBackup" /\ rot[a].started

\* the attempt acquired the lock and has not released it
Holding(a) == rot[a].acquired /\ ~rot[a].released

\* C2: of two attempts on the volume at most one is between its acquisition
\* and its release of the lock, and at most one is executing steps of the
\* sequence.
C2_MutualExclusion ==
    \A a, b \in Attempts :
        a # b => ~(Holding(a) /\ Holding(b)) /\ ~(InSequence(a) /\ InSequence(b))

\* C3: an attempt issues the release only if it acquired the lock, and an
\* attempt that acquired it has issued the release, and no longer owns the
\* lock, when it has returned.
C3_ReleasedOnReturn ==
    \A a \in Attempts :
        /\ rot[a].released => rot[a].acquired
        /\ rot[a].pc = "done" /\ rot[a].acquired =>
               rot[a].released /\ lockOwner # a

\* C3 witness: a cancelled attempt that held the lock has returned and
\* released it, and an attempt that found the lock taken has returned too.
C3_Witness ==
    \E a, b \in Attempts :
        /\ rot[a].pc = "done" /\ rot[a].result = "Cancelled"
        /\ rot[a].acquired /\ rot[a].released
        /\ rot[b].pc = "done" /\ rot[b].result = "LockUnavailable"
        /\ ~rot[b].acquired /\ ~rot[b].released

\* C4: the step with which a rotation returns success leaves the new
\* passphrase in slot 0, slot 1 empty, the old passphrase opening nothing, and
\* the new passphrase in the KMS.
C4_Success ==
    [][\A a \in Attempts :
         rot[a].pc = "removeBackup" /\ rot'[a].result = "ok" =>
             /\ luks'[luksSlot0] = new(a)
             /\ luks'[luksSlot1] = NoKey
             /\ ~Opens(luks', old(a))
             /\ kms' = new(a)]_vars

\* C4 witness: a rotation is returning success.
C4_Witness ==
    \E a \in Attempts :
        /\ rot[a].pc = "unlock" /\ rot[a].result = "ok"
        /\ luks = [s \in Slots |-> IF s = luksSlot0 THEN new(a) ELSE NoKey]
        /\ kms = new(a)

\* the steps before the KMS update
PreKmsSteps ==
    {"lock", "waitForPath", "fetch", "addBackup", "genKey", "installNew"}

\* the passphrase that was current when attempt a began: the one it fetched,
\* or the one the KMS holds when it has not fetched yet
current(a) == IF old(a) = NoKey THEN kms ELSE old(a)

\* C5: a rotation that fails at a step before the KMS update leaves the old
\* passphrase opening the device and in the KMS.
C5_FailBeforeKmsUpdate ==
    [][\A a \in Attempts :
         FailsAt(a, PreKmsSteps) =>
             Opens(luks', current(a)) /\ kms' = current(a)]_vars

\* C5 witness: the install of the new key has failed.
C5_Witness ==
    \E a \in Attempts :
        /\ rot[a].pc = "unlock"
        /\ rot[a].failedAt = "installNew"
        /\ Opens(luks, old(a))
        /\ kms = old(a)

\* C6 as stated: after a failed rotation exactly one of the two passphrases
\* opens the device, the old one for a failure up to the install of the new
\* key, the new one for a failure of the KMS update or of the backup removal.
C6_ExactlyOne ==
    [][\A a \in Attempts :
         /\ FailsAt(a, PreKmsSteps) =>
                Opens(luks', current(a)) /\ ~Opens(luks', new(a))
         /\ FailsAt(a, {"kmsUpdate", "removeBackup"}) =>
                Opens(luks', new(a)) /\ ~Opens(luks', old(a))]_vars

\* C6 amended: after a failed rotation only the old passphrase opens the
\* device for a failure up to the install of the new key; for a failure of the
\* KMS update or of the backup removal the new one opens it, and so does the
\* old one, through the backup slot.
C6_AtLeastOne ==
    [][\A a \in Attempts :
         /\ FailsAt(a, PreKmsSteps) =>
                Opens(luks', current(a)) /\ ~Opens(luks', new(a))
         /\ FailsAt(a, {"kmsUpdate", "removeBackup"}) =>
                /\ luks'[luksSlot0] = new(a)
                /\ luks'[luksSlot1] = old(a)]_vars

\* C6 witness: the KMS update has failed; both passphrases open the device.
C6_Witness ==
    \E a \in Attempts :
        /\ rot[a].pc = "unlock"
        /\ rot[a].failedAt = "kmsUpdate"
        /\ Opens(luks, new(a))
        /\ Opens(luks, old(a))

\* C7: a rotation of a volume that is not block-encrypted, or whose state is
\* not Encrypted, returns at once, with UnsupportedOperation unless the state
\* could not be read, without the lock and without a change of the key slots,
\* the KMS or the lock.
C7_Unsupported ==
    [][\A a \in Attempts :
         /\ rot[a].pc = "idle" /\ rot'[a].pc # "idle"
         /\ ~isBlockEncrypted \/ checkRbdImageEncrypted # rbdImageEncrypted
         => /\ rot'[a].pc = "done"
            /\ rot'[a].result \in {"Unsupported", "StateCheckFailed"}
            /\ ~isBlockEncrypted => rot'[a].result = "Unsupported"
            /\ ~rot'[a].acquired
            /\ UNCHANGED <<luks, kms, lockVars>>]_vars

\* C7 witness: the rotation of a volume that is only Prepared was refused.
C7_Witness ==
    \E a \in Attempts :
        /\ isBlockEncrypted
        /\ metadata = rbdImageEncryptionPrepared
        /\ rot[a].pc = "done"
        /\ rot[a].result = "Unsupported"
        /\ lockHolder = NoLocker

\* C8: while an attempt is in a step between the acquisition and the release
\* of the lock, its lease has not ended.
C8_LeaseOutlastsSteps ==
    \A a \in Attempts : rot[a].pc \in LockedSteps => now < lease(a)

\* C9: once the ctx of an attempt that holds the lock is cancelled, the
\* attempt starts no further step, and it returns a cancellation error through
\* the release of the lock.
C9_CancellationStops ==
    [][\A a \in Attempts :
         rot[a].cancelled /\ rot[a].pc \in LockedSteps /\ rot'[a].pc # rot[a].pc
         => /\ rot'[a].pc \in LockedSteps => ~rot'[a].started
            /\ rot'[a].pc \notin LockedSteps =>
                   rot'[a].pc = "unlock" /\ rot'[a].result = "Cancelled"]_vars

\* C10: a rotation invoked after a rotation that failed keeps the old or the
\* new passphrase opening the device, is never refused by the key slots the
\* failed one left behind, and returns success only with its new passphrase
\* alone in the key slots and in the KMS.
C10_RetrySafe ==
    \A a \in Attempts :
        rot[a].retry =>
            /\ old(a) # NoKey => Opens(luks, old(a)) \/ Opens(luks, new(a))
            /\ rot[a].result # "AuthFailed"
            /\ rot[a].result = "ok" =>
                   /\ luks = [s \in Slots |->
                                IF s = luksSlot0 THEN new(a) ELSE NoKey]
                   /\ kms = new(a)

\* C10 witness: a rotation invoked after a failed one is returning success.
C10_Witness ==
    \E a \in Attempts :
        /\ rot[a].retry
        /\ rot[a].pc = "unlock"
        /\ rot[a].result = "ok"
        /\ kms = new(a)

\* C11: no step writes Unknown as the state tag of a volume whose tag is
\* Prepared or Encrypted.
C11_NeverBackToUnknown ==
    [][metadata # rbdImageEncryptionUnknown =>
           metadata' # rbdImageEncryptionUnknown]_vars

\* C12: every step leaves the state tag of the volume or moves it forward
\* along Unknown -> Prepared -> Encrypted.
C12_ForwardOnly ==
    [][Rank(metadata') >= Rank(metadata)]_vars

\* the elements of a sequence
Range(seq) == {seq[j] : j \in DOMAIN seq}

\* the addresses of the CIDR blocks of a call
Fenced(cidrs) ==
    {ip \in IPs : \E k \in DOMAIN cidrs : isIPInCIDR(ip, cidrs[k])}

\* the fencing call of f has returned nil
ReturnedNil(f, op) ==
    fence[f].op = op /\ fence[f].pc = "done" /\ fence[f].result = "ok"

\* C13: when AddClientEviction has returned nil, it has issued an evict command
\* for every client of its listing whose address is in one of its CIDR blocks,
\* and the blocklist denies every address of its CIDR blocks.
C13_EvictAndFence ==
    \A f \in Fencers :
        ReturnedNil(f, "AddClientEviction") =>
            /\ \A c \in Range(fence[f].listing) :
                   c.ip \in Fenced(fence[f].cidr) =>
                       \E e \in Range(fence[f].log) :
                           e.cmd = "evict" /\ e.id = c.id /\ e.res = "ok"
            /\ \A ip \in Fenced(fence[f].cidr) : Denied(blocklist, ip)

\* C13 witness: against a cluster without range commands, a call for two
\* blocks has evicted both clients and returned nil; an address is denied that
\* no entry of a client names.
C13_Witness ==
    \E f \in Fencers :
        /\ ReturnedNil(f, "AddClientEviction")
        /\ gateway = "address"
        /\ fence[f].cidr = <<CidrB, CidrA>>
        /\ sessions = {}
        /\ \A ip \in Fenced(fence[f].cidr) : Denied(blocklist, ip)

\* C14: a call issues at most one evict command for a client.
C14_EvictedOnce ==
    \A f \in Fencers :
        \A j, k \in DOMAIN fence[f].log :
            /\ j < k
            /\ fence[f].log[j].cmd = "evict"
            /\ fence[f].log[k].cmd = "evict"
            => fence[f].log[j].id # fence[f].log[k].id

\* the entries AddNetworkFence over cidrs writes, with range commands or with
\* commands for the hosts
Written(cidrs) ==
    {RangeEntry(cidrs[k]) : k \in DOMAIN cidrs}
        \cup {AddrEntry(ip, "0") : ip \in Fenced(cidrs)}

\* AddNetworkFence has returned nil and then RemoveNetworkFence of the same
\* CIDR blocks has returned nil
RoundTrip ==
    /\ ReturnedNil(Adder, "AddNetworkFence")
    /\ ReturnedNil(Remover, "RemoveNetworkFence")
    /\ fence[Remover].cidr = fence[Adder].cidr

\* C15 as stated: after AddNetworkFence and RemoveNetworkFence of the same
\* CIDR blocks the blocklist is the one before, whatever it was.
C15_RoundTripAnyPrior ==
    RoundTrip => blocklist = prior

\* C15 amended: after AddNetworkFence and RemoveNetworkFence of the same CIDR
\* blocks the blocklist is the one before, when the one before held none of
\* the entries that AddNetworkFence writes.
C15_RoundTrip ==
    RoundTrip /\ prior \cap Written(fence[Adder].cidr) = {} =>
        blocklist = prior

\* C15 witness: the round trip against a cluster without range commands, over
\* two blocks, with the entry of an evicted client in the blocklist before and
\* after.
C15_Witness ==
    /\ RoundTrip
    /\ gateway = "address"
    /\ Len(fence[Adder].cidr) = 2
    /\ prior = {AddrEntry(IPOf(1), "n1")}
    /\ blocklist = prior

\* the commands of the loop over nf.Cidr of a call, in the order issued: the
\* adds of AddNetworkFence, or the removes of RemoveNetworkFence, which in
\* RemoveClientEviction come before the listing
LoopLog(r) ==
    LET ls == {j \in DOMAIN r.log : r.log[j].cmd = "ls"}
        n  == IF ls = {} THEN Len(r.log) ELSE (CHOOSE j \in ls : TRUE) - 1
        InLoop(c) == c.cmd \in {"add", "rm"}
    IN  SelectSeq(SubSeq(r.log, 1, n), InLoop)

\* the hosts of the CIDR blocks from the n-th on, in the order of getIPRange
RECURSIVE HostsFrom(_, _)
HostsFrom(cidrs, n) ==
    IF n > Len(cidrs) THEN <<>>
    ELSE getIPRange(cidrs[n]) \o HostsFrom(cidrs, n + 1)

\* the call is past its loop over nf.Cidr without an error
LoopDone(r) ==
    \/ r.pc \in {"ls", "rmEvicted"}
    \/ /\ r.pc = "done"
       /\ r.op \in {"AddNetworkFence", "AddClientEviction",
                    "RemoveNetworkFence"}
       /\ r.result = "ok"
    \/ r.pc = "done" /\ r.op = "RemoveClientEviction"
                     /\ \E j \in DOMAIN r.log : r.log[j].cmd = "ls"

\* a range command that the cluster answered with invalidCommandStr
Unsupported(c) ==
    c.range /\ c.res = invalidCommandStr

\* C16: in a call, no range command comes after a range command that was
\* answered "invalid command"; the commands after it are the commands for the
\* hosts of that CIDR block and of the blocks after it, each host once and in
\* order; and the first command of the loop of every call is a range command.
C16_DowngradeForTheCall ==
    \A f \in Fencers :
        LET r == fence[f]
            L == LoopLog(r)
            n == Cardinality({j \in DOMAIN L : L[j].range})
            hosts == IF n > 0 /\ Unsupported(L[n])
                     THEN HostsFrom(r.cidr, n) ELSE <<>>
        IN  /\ \A j, k \in DOMAIN L :
                 j < k /\ Unsupported(L[j]) => ~L[k].range
            /\ L # <<>> => L[1].range
            /\ \A j \in 1..n :
                 L[j].range /\ L[j].arg = RangeEntry(r.cidr[j])
            /\ Len(L) - n <= Len(hosts)
            /\ \A j \in 1..(Len(L) - n) :
                 L[n + j].arg = AddrEntry(hosts[j], "0")
            /\ LoopDone(r) => Len(L) - n = Len(hosts)

\* C16 witness: a call over two CIDR blocks has returned nil after its first
\* range command was answered "invalid command", and the other fencer's call,
\* made against the same cluster, has been downgraded as well.
C16_Witness ==
    \E f, g \in Fencers :
        /\ f # g
        /\ ReturnedNil(f, "AddNetworkFence")
        /\ fence[f].cidr = <<CidrB, CidrA>>
        /\ Unsupported(LoopLog(fence[f])[1])
        /\ Len(LoopLog(fence[f])) =
               1 + Len(getIPRange(CidrB)) + Len(getIPRange(CidrA))
        /\ ReturnedNil(g, "RemoveNetworkFence")
        /\ Unsupported(LoopLog(fence[g])[1])

\* AddNetworkFence or RemoveNetworkFence has returned to its caller
ReturnedFence(f) ==
    /\ fence[f].op \in {"AddNetworkFence", "RemoveNetworkFence"}
    /\ fence[f].pc = "done"

\* C17 as stated: AddNetworkFence and RemoveNetworkFence never return the
\* "invalid command" error of the cluster, whichever command it answered.
C17_UnsupportedNeverReturned ==
    \A f \in Fencers :
        ReturnedFence(f) => fence[f].result # invalidCommandStr

\* C17 amended: the error AddNetworkFence or RemoveNetworkFence returns is
\* the answer to its last command, and that is never a range command answered
\* "invalid command" (an "invalid command" answer to a command for a host is
\* returned like any other error).
C17_RangeErrorNotReturned ==
    \A f \in Fencers :
        ReturnedFence(f) /\ fence[f].result # "ok" =>
            LET L == LoopLog(fence[f])
            IN  /\ L # <<>>
                /\ L[Len(L)].res = fence[f].result
                /\ ~Unsupported(L[Len(L)])

\* C17 witness: AddNetworkFence has returned a later error although its range
\* command was answered "invalid command" before.
C17_Witness ==
    \E f \in Fencers :
        /\ ReturnedFence(f)
        /\ fence[f].op = "AddNetworkFence"
        /\ fence[f].result = "CommandFailed"
        /\ Unsupported(LoopLog(fence[f])[1])
        /\ Len(LoopLog(fence[f])) > 2

\* the last command of a call and its answer
Last(r) ==
    r.log[Len(r.log)]

\* the step is a command of AddNetworkFence by f that the cluster answers with
\* an error other than the "invalid command" of a range command
AddFails(f) ==
    /\ fence[f].pc = "add"
    /\ Len(fence'[f].log) = Len(fence[f].log) + 1
    /\ Last(fence'[f]).res # "ok"
    /\ ~Unsupported(Last(fence'[f]))

\* the entries a call has added so far
Added(r) ==
    {r.log[j].arg : j \in {k \in DOMAIN r.log :
                             r.log[k].cmd = "add" /\ r.log[k].res = "ok"}}

\* C18: a command of AddNetworkFence that fails with an error other than the
\* "invalid command" of a range command makes the call return that error in
\* the same step, leaving the blocklist as it is; a call that has returned
\* issues no further command, so the failed command is not repeated and no
\* later one is issued; no command of the call is a removal; and every entry a
\* call has added is in the blocklist.
C18_AddAbortsAtOnce ==
    [][\A f \in Fencers :
          /\ AddFails(f) =>
                /\ fence'[f].pc = "done"
                /\ fence'[f].result = Last(fence'[f]).res
                /\ blocklist' = blocklist
          /\ fence[f].pc = "done" => fence'[f] = fence[f]
          /\ \A j \in DOMAIN fence'[f].log : fence'[f].log[j].cmd # "rm"
          /\ Added(fence'[f]) \subseteq blocklist']_vars

\* C18 witness: AddNetworkFence over two CIDR blocks has returned the error
\* of its second command, and the entry added by the first is in the
\* blocklist.
C18_Witness ==
    \E f \in Fencers :
        /\ fence[f].op = "AddNetworkFence"
        /\ fence[f].pc = "done"
        /\ fence[f].result = "CommandFailed"
        /\ Len(fence[f].cidr) = 2
        /\ Len(fence[f].log) = 2
        /\ fence[f].log[1].res = "ok"
        /\ fence[f].log[1].arg \in blocklist

\* C19: RemoveClientEviction does not return an error because an entry it
\* removes is not in the blocklist.
C19_AbsentEntryNotFatal ==
    \A f \in Fencers :
        fence[f].op = "RemoveClientEviction" /\ fence[f].pc = "done" =>
            fence[f].result # "NotBlocklisted"

\* the entries a call has asked the cluster to add, and the sessions it has
\* asked the cluster to evict
Asked(r, cmd) ==
    {<<r.log[j].arg, r.log[j].id>> :
        j \in {k \in DOMAIN r.log : r.log[k].cmd = cmd}}

\* C20: when two calls that add (AddNetworkFence or AddClientEviction) have
\* both returned, whatever the interleaving of their commands, an error that
\* one returns is the error answer of the cluster to its last command (never
\* the effect of the other call's blocks or evictions), and when both have
\* returned nil every address of the CIDR blocks of both is denied.
C20_ConcurrentAdds ==
    \A f, g \in Fencers :
        f # g /\ fence[f].pc = "done" /\ fence[g].pc = "done" =>
            /\ fence[f].result # "ok" =>
                  /\ fence[f].result = Last(fence[f]).res
                  /\ fence[f].result \in {"CommandFailed", invalidCommandStr}
            /\ fence[f].result = "ok" /\ fence[g].result = "ok" =>
                  \A ip \in Fenced(fence[f].cidr) \cup Fenced(fence[g].cidr) :
                      Denied(blocklist, ip)

\* C20 witness: two AddClientEviction calls over overlapping CIDR blocks have
\* both returned nil after both evicted the same session and both blocked the
\* same address.
C20_Witness ==
    \E f, g \in Fencers :
        /\ f # g
        /\ ReturnedNil(f, "AddClientEviction")
        /\ ReturnedNil(g, "AddClientEviction")
        /\ fence[f].cidr = <<CidrA>>
        /\ fence[g].cidr = <<CidrB>>
        /\ Asked(fence[f], "evict") \cap Asked(fence[g], "evict") # {}
        /\ Asked(fence[f], "add") \cap Asked(fence[g], "add") # {}

\* the addresses of a block, as numbers
Value(ip) ==
    LET RECURSIVE val(_)
        val(j) == IF j = 0 THEN 0 ELSE ip[j] + ByteBase * val(j - 1)
    IN  val(IPBytes)

\* C21: the slice getIPRange builds holds addresses of the block only, each
\* once and in ascending order, and the slice it returns holds all of them.
C21_EveryAddressOnce ==
    \A f \in Fencers :
        LET r == expand[f]
        IN  /\ \A j \in DOMAIN r.hosts : Contains(r.ipnet, r.hosts[j])
            /\ \A j, k \in DOMAIN r.hosts :
                 j < k => Value(r.hosts[j]) < Value(r.hosts[k])
            /\ r.pc = "done" =>
                 Range(r.hosts) = {ip \in IPs : Contains(r.ipnet, ip)}

\* the step is a call of copyEncryptionConfig on an rbdImage of VolID ri
CopyCalled(ri) ==
    /\ call'.n # call.n
    /\ call'.op = "copyEncryptionConfig"
    /\ call'.ri = ri

\* copyEncryptionConfig(ctx, cp, false) from a block-encrypted parent has
\* returned nil: the passphrase of the parent is the one stored under the
\* VolID of the volume, the tag of the volume is the tag of the parent, and
\* the parent is as before
CopiedFromParent ==
    CopyCalled(ParentVolID) /\ ~call'.copyOnlyPassphrase /\ call'.err = ""
    /\ parent.binding = "block" =>
        /\ kms' = parent.passphrase /\ kms' # NoKey
        /\ isBlockEncrypted'
        /\ metadata' = parent.metadata
        /\ parent' = parent

\* the step leaves the volume, its KMS entry and the parent as they are
NothingWritten ==
    UNCHANGED <<volumeVars, kms, luks, parent>>

Successors(pc) ==
    CASE pc = "idle" -> {"lock", "done"}
      [] pc = "lock" -> {"waitForPath", "done"}
      [] pc = "waitForPath" -> {"fetch", "unlock"}
      [] pc = "fetch" -> {"addBackup", "unlock"}
      [] pc = "addBackup" -> {"genKey", "unlock"}
      [] pc = "genKey" -> {"installNew", "unlock"}
      [] pc = "installNew" -> {"kmsUpdate", "unlock"}
      [] pc = "kmsUpdate" -> {"removeBackup", "unlock"}
      [] pc = "removeBackup" -> {"unlock"}
      [] pc = "unlock" -> {"done"}
      [] OTHER -> {}

\* C23: an attempt goes through its calls in the order lock, device lookup,
\* passphrase fetch, backup add, key generation, new-key install, KMS update,
\* backup removal, unlock; it goes on to the next call only with no error so
\* far and with the lock acquired, and after an error only to the unlock and
\* the return.  The device changes only in the three luks steps and the KMS
\* only in the KMS update; the KMS update starts with the new key installed in
\* slot 0 and the backup in slot 1, and the backup removal starts with the new
\* passphrase in the KMS.
C23_StrictOrder ==
    [][/\ \A a \in Attempts :
            /\ rot'[a].pc # rot[a].pc =>
                   rot'[a].pc \in Successors(rot[a].pc)
            /\ rot'[a].pc \in LockedSteps =>
                   rot'[a].result = "" /\ rot'[a].acquired
                   /\ ~rot'[a].released
            /\ rot[a].pc = "installNew" /\ rot'[a].pc = "kmsUpdate" =>
                   /\ luks'[luksSlot0] = rot[a].newPassphrase
                   /\ luks'[luksSlot1] = rot[a].oldPassphrase
            /\ rot[a].pc = "kmsUpdate" /\ rot'[a].pc = "removeBackup" =>
                   kms' = rot[a].newPassphrase
       /\ luks' # luks =>
            \E a \in Attempts :
                rot[a].pc \in {"addBackup", "installNew", "removeBackup"}
       /\ kms' # kms =>
            \E a \in Attempts :
                /\ rot[a].pc = "kmsUpdate"
                /\ luks[luksSlot0] = rot[a].newPassphrase
       /\ lockHolder' # lockHolder =>
            \E a \in Attempts : rot[a].pc \in {"lock", "unlock"}]_vars

\* C23 witness: an attempt is at the backup removal, with the new key in slot
\* 0, the backup in slot 1, the new passphrase in the KMS and the lock held.
C23_Witness ==
    \E a \in Attempts :
        /\ rot[a].pc = "removeBackup"
        /\ luks[luksSlot0] = rot[a].newPassphrase
        /\ luks[luksSlot1] = rot[a].oldPassphrase
        /\ kms = rot[a].newPassphrase
        /\ lockOwner = a /\ LockHeld

\* C24: the passphrase the KMS returns for an Encrypted volume opens the
\* device through one of its key slots, in every state: during a rotation,
\* after a rotation that failed at any step, and during and after the
\* rotations invoked after it.
C24_KmsPassphraseOpens ==
    metadata = rbdImageEncrypted => Opens(luks, kms)

\* C24 witness: a rotation invoked after a failed one has itself failed at the
\* KMS update; the passphrase of the KMS opens the device through the backup
\* slot only.
C24_Witness ==
    \E a \in Attempts :
        /\ rot[a].retry
        /\ rot[a].pc = "unlock"
        /\ rot[a].failedAt = "kmsUpdate"
        /\ metadata = rbdImageEncrypted
        /\ luks[luksSlot0] # kms
        /\ luks[luksSlot1] = kms

\* C25: the deferred Unlock of an attempt removes the lock only when the lock
\* is the one this attempt acquired.
C25_ReleasesOwnLockOnly ==
    [][\A a \in Attempts :
         rot[a].pc = "unlock" /\ rot'[a].pc = "done"
         /\ lockHolder' # lockHolder => lockOwner = a]_vars

\* the errors of the store, the fetch and the formatting that come before the
\* write of the tag
EarlierErrs == {"StoreFailed", "GetPassphraseFailed", "EncryptVolumeFailed"}

\* C26: after every step a volume whose tag is Prepared or Encrypted has a
\* passphrase in the KMS; a call that returns the error of the store, the
\* fetch or the formatting leaves the tag as it was; and a call that changes
\* the tag has, in the same call and before, stored the passphrase
\* (setupBlockEncryption: a new one; copyEncryptionConfig from a
\* block-encrypted parent: the parent's) or formatted the device with the
\* stored passphrase (encryptDevice).
C26_TagImpliesPassphrase ==
    [][/\ metadata' \in {rbdImageEncryptionPrepared, rbdImageEncrypted} =>
            kms' # NoKey
       /\ call'.n # call.n =>
            /\ call'.err \in EarlierErrs => metadata' = metadata
            /\ metadata' # metadata =>
                 /\ call'.err = ""
                 /\ call'.op = "setupBlockEncryption" =>
                        /\ metadata' = rbdImageEncryptionPrepared
                        /\ kms' # kms
                 /\ call'.op = "encryptDevice" =>
                        /\ metadata' = rbdImageEncrypted
                        /\ luks'[luksSlot0] = kms'
                 /\ call'.op = "copyEncryptionConfig"
                    /\ parent.binding = "block" =>
                        /\ metadata' = parent.metadata
                        /\ kms' = parent.passphrase]_vars

\* C26 witness: the store of the passphrase for the volume has failed in
\* copyEncryptionConfig from an Encrypted parent; the volume has no passphrase
\* and its tag is still Unknown.
C26_Witness ==
    /\ call.op = "copyEncryptionConfig" /\ call.err = "StoreFailed"
    /\ parent.metadata = rbdImageEncrypted
    /\ kms = NoKey
    /\ metadata = rbdImageEncryptionUnknown

\* ------------------------------------------------------------------ C27
\* the positions of the log of a call at which it issued the command cmd
Issued(r, cmd) == {j \in DOMAIN r.log : r.log[j].cmd = cmd}

\* the listing of the call failed, or one of its evict commands did
CommandFailedIn(r) ==
    \E j \in Issued(r, "clients") \cup Issued(r, "evict") :
        r.log[j].res # "ok"

\* the sessions are listed once, and every evict command precedes every add
ListedOnceEvictsFirst(r) ==
    /\ Cardinality(Issued(r, "clients")) <= 1
    /\ r.pc \notin {"idle", "clients"} =>
           Cardinality(Issued(r, "clients")) = 1
    /\ \A j \in Issued(r, "evict") : \A k \in Issued(r, "add") : j < k

\* the call has issued no add command and has blocked nothing, and when it
\* has returned it has returned an error
NothingBlocked(r) ==
    /\ Issued(r, "add") = {}
    /\ \A e \in blocklist : e.kind = "addr" /\ e.nonce # "0"
    /\ r.pc = "done" => r.result # "ok"

\* C27 (as stated): AddClientEviction lists the sessions once and every evict
\* command precedes every add command; when the listing fails, when a listed
\* session has no extractable address or no extractable id, or when an evict
\* command fails, the call returns the error and has issued no add command.
C27_NoBlockAfterFailure ==
    LET r == fence[Evictor]
    IN  /\ ListedOnceEvictsFirst(r)
        /\ \/ CommandFailedIn(r)
           \/ \E c \in Range(r.listing) : fetchIP(c) # "" \/ fetchID(c) # ""
           => NothingBlocked(r)

\* C27 (amended): as above, where a session without an extractable id counts
\* only when its address is in one of the CIDR blocks of the call.
C27_NoBlockAfterFailureInRange ==
    LET r == fence[Evictor]
    IN  /\ ListedOnceEvictsFirst(r)
        /\ \/ CommandFailedIn(r)
           \/ \E c \in Range(r.listing) :
                  \/ fetchIP(c) # ""
                  \/ c.ip \in Fenced(r.cidr) /\ fetchID(c) # ""
           => NothingBlocked(r)

\* C27 witness: a call has evicted a session, then met a session whose
\* descriptor cannot be parsed and returned the error, with no add command.
C27_Witness ==
    LET r == fence[Evictor]
    IN  /\ r.pc = "done"
        /\ r.result = "MalformedDescriptor"
        /\ \E j \in Issued(r, "evict") : r.log[j].res = "ok"
        /\ Issued(r, "clients") # {}
        /\ NothingBlocked(r)

\* ------------------------------------------------------------------ C28
\* the entries RemoveClientEviction over cidrs is to clear: the range entry of
\* each CIDR block and every address entry with an address in a block
Cleared(cidrs) ==
    {RangeEntry(cidrs[k]) : k \in DOMAIN cidrs}
        \cup {e \in EvictionEntries :
                 e.kind = "addr" /\ e.ip \in Fenced(cidrs)}

\* the commands of a call after its listing, in the order issued
AfterListing(r) ==
    LET ls == Issued(r, "ls")
    IN  IF ls = {} THEN <<>>
        ELSE SubSeq(r.log, (CHOOSE j \in ls : TRUE) + 1, Len(r.log))

\* the removals of RemoveNetworkFence come first: with range commands the
\* range entry of each block, after the downgrade the nonce-0 entry of each
\* host; then one listing; then removals that name, address and nonce, an
\* address entry of the listing with its address in a block
RemovalOrder(r) ==
    /\ Cardinality(Issued(r, "ls")) <= 1
    /\ \A c \in Range(LoopLog(r)) :
           /\ c.cmd = "rm"
           /\ c.arg \in Written(r.cidr)
    /\ Issued(r, "ls") # {} =>
           \A k \in DOMAIN r.cidr :
               \/ \E c \in Range(LoopLog(r)) :
                      c.range /\ c.res = "ok" /\ c.arg = RangeEntry(r.cidr[k])
               \/ \A ip \in Fenced(<<r.cidr[k]>>) :
                      \E c \in Range(LoopLog(r)) :
                          ~c.range /\ c.res = "ok" /\ c.arg = AddrEntry(ip, "0")
    /\ \A c \in Range(AfterListing(r)) :
           /\ c.cmd = "rm" /\ ~c.range
           /\ c.arg \in Range(r.listing)
           /\ c.arg.kind = "addr" /\ c.arg.ip \in Fenced(r.cidr)

====
